---- MODULE Spec2Model ----
(***************************************************************************)
(* Model of praier's PRMonitor (src/praier/monitor.py) and of the parts of *)
(* GitHubClient (src/praier/github_client.py) that decide the result of a  *)
(* gateway call.                                                           *)
(*                                                                         *)
(* Time is counted in hours.  A monitoring cycle ("tick") is split into    *)
(* steps at the places where the coroutine of one server can be suspended: *)
(* the listing of a repository, the fetch of a pull request's runs, and    *)
(* the decision part of process_pull_request.                              *)
(***************************************************************************)
EXTENDS Integers, Sequences, FiniteSets, TLC

VARIABLES
    config,      \* PRMonitor.config (PraierConfig)
    world,       \* what the GitHub servers can answer, and the cycles explored
    clients,     \* PRMonitor.clients: names of the servers that have a client
    pr_states,   \* PRMonitor.pr_states: server -> pr number -> PRState
    now,         \* datetime.now(), in hours
    phase,       \* position of start_monitoring
    ticks,       \* number of monitoring cycles started
    unit,        \* per server: position and locals of its monitor_server task
    calls,       \* gateway mutation calls issued by the last step
    op,          \* the operation performed by the last step
    tick_log,    \* what the current cycle has listed and processed so far
    attempted,   \* server -> pr number -> run ids submitted since the head was recorded
    deleted,     \* what cleanup sweeps removed: <<server, pr number, approved_runs>>
                 \* of each removed PRState
    history      \* <<server, repository, pr number, run id>> of every successful
                 \* approve_workflow_run call

vars == <<config, world, clients, pr_states, now, phase, ticks, unit, calls,
          op, tick_log, attempted, deleted, history>>

----------------------------------------------------------------------------
(* Bounds of the exploration *)

MaxTicks == 2
MaxTime == 48
ClockStep == 24
MaxPRs == 2
MaxRuns == 2
MaxChecks == 2

(* Program constants *)

DefaultMaxAgeHours == 24
DefaultPollInterval == 60
ErrorSleepCap == 30

None == "None"
EmptyMap == [k \in {} |-> k]

----------------------------------------------------------------------------
(* Data classes of github_client.py, reduced to the fields the monitor reads *)

PullRequest(number, head_sha, repository) ==
    [number |-> number, head_sha |-> head_sha, repository |-> repository]

WorkflowRun(id, status, pull_requests) ==
    [id |-> id, status |-> status, pull_requests |-> pull_requests]

CheckRun(id, status, conclusion) ==
    [id |-> id, status |-> status, conclusion |-> conclusion]

(* mutant: approved_runs is one set shared by all PRState objects *)
NewPRState_SharedSet(pr, t) ==
    [pr |-> pr,
     last_check_runs |-> EmptyMap,
     last_workflow_runs |-> EmptyMap,
     last_updated |-> t,
     copilot_requested |-> FALSE,
     approved_runs |-> UNION {pr_states[s][n].approved_runs :
                                 <<s, n>> \in {x \in clients \X world.numbers :
                                                  x[2] \in DOMAIN pr_states[x[1]]}}]

NewPRState(pr, t) ==
    [pr |-> pr,
     last_check_runs |-> EmptyMap,
     last_workflow_runs |-> EmptyMap,
     last_updated |-> t,
     copilot_requested |-> FALSE,
     approved_runs |-> {}]

(* {x.id: x for x in items}: a later item with the same id wins *)
ById(items) ==
    [id \in {items[i].id : i \in DOMAIN items} |->
        LET last == CHOOSE i \in DOMAIN items :
                        /\ items[i].id = id
                        /\ \A j \in DOMAIN items : items[j].id = id => j <= i
        IN items[last]]

----------------------------------------------------------------------------
(* Answers of the world service to one HTTP request *)

Responses == {"ok", "not_found", "unauthorized", "conn_error"}

(* mutant: an authentication failure ends the program instead of raising an *)
(* error that the handlers of the monitor catch                             *)
AuthenticationFailed_Exit == "SystemExit"

(* GitHubClient._make_request, lines 83-85: the error raised on status 401 *)
AuthenticationFailed == "HTTPError"

(* GitHubClient._make_request: what a request raises, "ok" when it returns. *)
(* session.request raises ConnectionError, raise_for_status an HTTPError.   *)
make_request(response) ==
    CASE response = "ok" -> "ok"
      [] response = "unauthorized" -> AuthenticationFailed
      [] response = "not_found" -> "HTTPError"
      [] response = "conn_error" -> "ConnectionError"

(* "except Exception" of monitor_repository (line 152) and of              *)
(* process_pull_request (line 211): every Exception subclass is caught     *)
CaughtByMonitor(exc) == exc \in {"HTTPError", "ConnectionError", "AttributeError"}

(* GitHubClient.approve_workflow_run: True on success, False on an HTTP      *)
(* error that carries a response; the 401 error raised by _make_request has  *)
(* no response, so the handler's e.response.status_code raises; a connection *)
(* error is not an HTTPError and propagates.                                 *)
approve_workflow_run(response) ==
    CASE response = "ok" -> "true"
      [] response = "not_found" -> "false"
      [] response = "unauthorized" -> "raise"
      [] response = "conn_error" -> "raise"

(* GitHubClient.create_issue_comment via request_copilot_fix: every HTTPError *)
(* gives False; a connection error propagates.                                *)
request_copilot_fix(response) ==
    CASE response = "ok" -> "true"
      [] response = "not_found" -> "false"
      [] response = "unauthorized" -> "false"
      [] response = "conn_error" -> "raise"

ApproveCall(repository, number, run_id, result) ==
    [fn |-> "approve_workflow_run", repository |-> repository, number |-> number,
     run_id |-> run_id, checks |-> <<>>, result |-> result]

FixCall(repository, number, checks, result) ==
    [fn |-> "request_copilot_fix", repository |-> repository, number |-> number,
     run_id |-> None, checks |-> checks, result |-> result]

----------------------------------------------------------------------------
(* PRMonitor.process_workflow_runs, lines 229-244: the loop over the fetched *)
(* runs.  responses maps a run id to the answer of the approve request.      *)

(* mutant: the "already approved" test of line 235 is missing *)
NeedsApproval_NoSkip(run, pr, approved_runs) ==
    /\ pr.number \in run.pull_requests
    /\ run.status \in {"queued", "waiting"}

(* mutant: the status test of lines 237-240 is missing *)
NeedsApproval_AnyStatus(run, pr, approved_runs) ==
    /\ pr.number \in run.pull_requests
    /\ run.id \notin approved_runs

NeedsApproval(run, pr, approved_runs) ==
    /\ pr.number \in run.pull_requests
    /\ run.id \notin approved_runs
    /\ run.status \in {"queued", "waiting"}

RECURSIVE ApproveLoop_RetryFailed(_, _, _, _, _)
(* mutant: a request that returns False is repeated at once *)
ApproveLoop_RetryFailed(workflow_runs, pr, approved_runs, responses, issued) ==
    IF workflow_runs = <<>>
    THEN [approved_runs |-> approved_runs, calls |-> issued, raised |-> FALSE]
    ELSE LET run == Head(workflow_runs)
             result == approve_workflow_run(responses[run.id])
             call == ApproveCall(pr.repository, pr.number, run.id, result)
         IN IF ~NeedsApproval(run, pr, approved_runs)
            THEN ApproveLoop_RetryFailed(Tail(workflow_runs), pr, approved_runs,
                                         responses, issued)
            ELSE IF result = "raise"
            THEN [approved_runs |-> approved_runs,
                  calls |-> Append(issued, call), raised |-> TRUE]
            ELSE IF result = "true"
            THEN ApproveLoop_RetryFailed(Tail(workflow_runs), pr,
                                         approved_runs \cup {run.id},
                                         responses, Append(issued, call))
            ELSE ApproveLoop_RetryFailed(Tail(workflow_runs), pr, approved_runs,
                                         responses, Append(Append(issued, call), call))

RECURSIVE ApproveLoop(_, _, _, _, _)
ApproveLoop(workflow_runs, pr, approved_runs, responses, issued) ==
    IF workflow_runs = <<>>
    THEN [approved_runs |-> approved_runs, calls |-> issued, raised |-> FALSE]
    ELSE LET run == Head(workflow_runs)
             result == approve_workflow_run(responses[run.id])
             call == ApproveCall(pr.repository, pr.number, run.id, result)
         IN IF ~NeedsApproval(run, pr, approved_runs)
            THEN ApproveLoop(Tail(workflow_runs), pr, approved_runs, responses, issued)
            ELSE IF result = "raise"
            THEN [approved_runs |-> approved_runs,
                  calls |-> Append(issued, call), raised |-> TRUE]
            ELSE IF result = "true"
            THEN ApproveLoop(Tail(workflow_runs), pr, approved_runs \cup {run.id},
                             responses, Append(issued, call))
            ELSE ApproveLoop(Tail(workflow_runs), pr, approved_runs,
                             responses, Append(issued, call))

(* Run ids for which the loop can ask the world service *)
ApprovalCandidates(workflow_runs, pr, pr_state) ==
    {workflow_runs[i].id : i \in {j \in DOMAIN workflow_runs :
        NeedsApproval(workflow_runs[j], pr, pr_state.approved_runs)}}

(* mutant: the switch auto_approve_actions is not consulted *)
process_workflow_runs_IgnoreToggle(cfg, pr, workflow_runs, pr_state, responses) ==
    LET r == ApproveLoop(workflow_runs, pr, pr_state.approved_runs, responses, <<>>)
    IN IF r.raised
       THEN [state |-> [pr_state EXCEPT !.approved_runs = r.approved_runs],
             calls |-> r.calls, raised |-> TRUE]
       ELSE [state |-> [pr_state EXCEPT !.approved_runs = r.approved_runs,
                                        !.last_workflow_runs = ById(workflow_runs)],
             calls |-> r.calls, raised |-> FALSE]

process_workflow_runs(cfg, pr, workflow_runs, pr_state, responses) ==
    IF ~cfg.auto_approve_actions
    THEN [state |-> pr_state, calls |-> <<>>, raised |-> FALSE]
    ELSE LET r == ApproveLoop(workflow_runs, pr, pr_state.approved_runs, responses, <<>>)
         IN IF r.raised
            THEN [state |-> [pr_state EXCEPT !.approved_runs = r.approved_runs],
                  calls |-> r.calls, raised |-> TRUE]
            ELSE [state |-> [pr_state EXCEPT !.approved_runs = r.approved_runs,
                                             !.last_workflow_runs = ById(workflow_runs)],
                  calls |-> r.calls, raised |-> FALSE]

----------------------------------------------------------------------------
(* PRMonitor.process_check_runs *)

(* mutant: the conclusion of line 267 is not tested *)
IsFailing_AnyCompleted(check) == check.status = "completed"

(* lines 264-268: status completed and conclusion failure *)
IsFailing(check) == check.status = "completed" /\ check.conclusion = "failure"

FailingChecks(check_runs) == SelectSeq(check_runs, IsFailing)

(* mutant: the comparison of the heads is missing *)
ResetOnHeadChange_Never(pr_state, pr) == pr_state

(* lines 279-281: the flag is reset when the stored head differs from pr's *)
ResetOnHeadChange(pr_state, pr) ==
    IF pr_state.pr.head_sha # pr.head_sha
    THEN [pr_state EXCEPT !.copilot_requested = FALSE]
    ELSE pr_state

(* mutant: the switch auto_fix_with_copilot is not consulted *)
process_check_runs_IgnoreToggle(cfg, pr, check_runs, pr_state, response) ==
    LET failing_checks == FailingChecks(check_runs)
        asked == failing_checks # <<>> /\ ~pr_state.copilot_requested
        result == request_copilot_fix(response)
        call == FixCall(pr.repository, pr.number, failing_checks, result)
        requested == IF asked /\ result = "true"
                     THEN [pr_state EXCEPT !.copilot_requested = TRUE]
                     ELSE pr_state
    IN IF asked /\ result = "raise"
       THEN [state |-> pr_state, calls |-> <<call>>, raised |-> TRUE]
       ELSE [state |-> [ResetOnHeadChange(requested, pr)
                           EXCEPT !.last_check_runs = ById(check_runs)],
             calls |-> IF asked THEN <<call>> ELSE <<>>,
             raised |-> FALSE]

process_check_runs(cfg, pr, check_runs, pr_state, response) ==
    IF ~cfg.auto_fix_with_copilot
    THEN [state |-> pr_state, calls |-> <<>>, raised |-> FALSE]
    ELSE LET failing_checks == FailingChecks(check_runs)
             asked == failing_checks # <<>> /\ ~pr_state.copilot_requested
             result == request_copilot_fix(response)
             call == FixCall(pr.repository, pr.number, failing_checks, result)
             requested == IF asked /\ result = "true"
                          THEN [pr_state EXCEPT !.copilot_requested = TRUE]
                          ELSE pr_state
         IN IF asked /\ result = "raise"
            THEN [state |-> pr_state, calls |-> <<call>>, raised |-> TRUE]
            ELSE [state |-> [ResetOnHeadChange(requested, pr)
                                EXCEPT !.last_check_runs = ById(check_runs)],
                  calls |-> IF asked THEN <<call>> ELSE <<>>,
                  raised |-> FALSE]

----------------------------------------------------------------------------
(* PRMonitor.process_pull_request *)

(* mutant: every pass starts from a new PRState *)
TouchPRState_Recreate(states, pr, t) == NewPRState(pr, t)

(* mutant: a new head commit starts the PR's bookkeeping over *)
TouchPRState_ResetOnPush(states, pr, t) ==
    IF pr.number \in DOMAIN states /\ states[pr.number].pr.head_sha = pr.head_sha
    THEN [states[pr.number] EXCEPT !.pr = pr, !.last_updated = t]
    ELSE NewPRState(pr, t)

(* lines 161-170: get or create the PRState, then store the PR and the time *)
TouchPRState(states, pr, t) ==
    LET pr_state == IF pr.number \in DOMAIN states
                    THEN states[pr.number]
                    ELSE NewPRState(pr, t)
    IN [pr_state EXCEPT !.pr = pr, !.last_updated = t]

(* lines 201-212: the two decisions; an exception of the first skips the *)
(* second and is caught by the handler of process_pull_request           *)
DecidePR(cfg, pr, workflow_runs, check_runs, pr_state, responses, response) ==
    LET w == process_workflow_runs(cfg, pr, workflow_runs, pr_state, responses)
        c == process_check_runs(cfg, pr, check_runs, w.state, response)
    IN IF w.raised
       THEN [state |-> w.state, calls |-> w.calls, outcome |-> "approve_raised"]
       ELSE [state |-> c.state, calls |-> w.calls \o c.calls,
             outcome |-> IF c.raised THEN "fix_raised" ELSE "completed"]

(* AgentTeam.analyze_pr as process_pull_request sees it: a non-empty list *)
(* of reports, an empty list, or an exception                            *)
AnalysisOutcomes == {"reports", "empty", "error"}

----------------------------------------------------------------------------
(* PRMonitor.cleanup_stale_prs *)

(* mutant: an entry exactly at the threshold counts as stale *)
IsStale_Inclusive(pr_state, t, max_age_hours) ==
    pr_state.last_updated <= t - max_age_hours

IsStale(pr_state, t, max_age_hours) == pr_state.last_updated < t - max_age_hours

(* mutant: a sweep stops after the first stale entry of a server *)
cleanup_stale_prs_FirstOnly(states, t, max_age_hours) ==
    [s \in DOMAIN states |->
        LET stale_prs == {n \in DOMAIN states[s] : IsStale(states[s][n], t, max_age_hours)}
            first == {n \in stale_prs : \A m \in stale_prs : n <= m}
        IN [n \in DOMAIN states[s] \ first |-> states[s][n]]]

cleanup_stale_prs(states, t, max_age_hours) ==
    [s \in DOMAIN states |->
        LET stale_prs == {n \in DOMAIN states[s] : IsStale(states[s][n], t, max_age_hours)}
        IN [n \in DOMAIN states[s] \ stale_prs |-> states[s][n]]]

----------------------------------------------------------------------------
(* What the world service can return *)

RECURSIVE DistinctSeqs(_, _)
(* the sequences of at most n elements of S, no two with the same key *)
DistinctSeqs(S, n) ==
    IF n = 0 \/ S = {} THEN {<<>>}
    ELSE LET shorter == DistinctSeqs(S, n - 1)
         IN shorter \cup
            {Append(q, x) : <<q, x>> \in
                {<<q, x>> \in shorter \X S :
                    /\ Len(q) = n - 1
                    /\ \A i \in DOMAIN q : q[i].key # x.key}}

Keyed(S, field) == {[key |-> x[field], item |-> x] : x \in S}
Items(q) == [i \in DOMAIN q |-> q[i].item]

(* get_pull_requests(repository): open PRs, each number at most once *)
PRLists(repository) ==
    {Items(q) : q \in DistinctSeqs(
        Keyed({PullRequest(n, h, repository) : n \in world.numbers, h \in world.shas},
              "number"), MaxPRs)}

(* get_workflow_runs / get_check_runs: each id at most once *)
RunLists == {Items(q) : q \in DistinctSeqs(Keyed(world.runs, "id"), MaxRuns)}
CheckLists == {Items(q) : q \in DistinctSeqs(Keyed(world.checks, "id"), MaxChecks)}

MaxAges == {0, ClockStep, DefaultMaxAgeHours}

----------------------------------------------------------------------------
(* PRMonitor.__init__ *)

(* mutant: a client for every configured server, token or not *)
Tokened_All(cfg) == {cfg.github_servers[i].name : i \in DOMAIN cfg.github_servers}

(* __init__, lines 72-84: "if not token: continue" guards the client and pr_states *)
Tokened(cfg) ==
    {cfg.github_servers[i].name : i \in {j \in DOMAIN cfg.github_servers :
                                            cfg.github_servers[j].token}}

ServerIndex(s) ==
    CHOOSE i \in DOMAIN config.github_servers : config.github_servers[i].name = s

EmptyStats == [servers |-> 0, total_prs |-> 0, active_prs_by_server |-> EmptyMap,
               repositories |-> <<>>]

NoOp == [name |-> "init", server |-> None, repository |-> None, number |-> 0,
         max_age |-> 0, prev_head |-> None, outcome |-> None, analysis |-> None,
         pass_done |-> FALSE, open |-> {}, removed |-> {}, sleep |-> 0,
         stats |-> EmptyStats, candidates |-> {}, failing |-> FALSE, head |-> None,
         requested |-> FALSE, events |-> <<>>]

EmptyLog == [listed |-> {}, failed |-> {}, returned |-> {}, processed |-> <<>>,
             errors |-> {}]

IdleUnit == [pc |-> "done", idx |-> 0, pull_requests |-> <<>>, i |-> 0,
             prev_head |-> None, workflow_runs |-> <<>>, check_runs |-> <<>>]

InitWith(cfg, universe) ==
    /\ config = cfg
    /\ world = universe
    /\ clients = Tokened(cfg)
    /\ pr_states = [s \in Tokened(cfg) |-> EmptyMap]
    /\ now = 0
    /\ phase = "init"
    /\ ticks = 0
    /\ unit = [s \in Tokened(cfg) |-> IdleUnit]
    /\ calls = <<>>
    /\ op = NoOp
    /\ tick_log = EmptyLog
    /\ attempted = [s \in Tokened(cfg) |-> EmptyMap]
    /\ deleted = {}
    /\ history = {}

----------------------------------------------------------------------------
(* Positions of a monitor_server task *)

(* monitor_server, lines 131-137: the next repository, or the end *)
AfterRepo(u) ==
    IF u.idx < Len(config.repositories)
    THEN [IdleUnit EXCEPT !.pc = "repo", !.idx = u.idx + 1]
    ELSE IdleUnit

(* monitor_repository, lines 149-150: the next PR of the listing, or the end *)
AfterPR(u) ==
    IF u.i < Len(u.pull_requests)
    THEN [u EXCEPT !.pc = "prs", !.i = u.i + 1, !.prev_head = None,
                   !.workflow_runs = <<>>, !.check_runs = <<>>]
    ELSE AfterRepo(u)

(* mutant: the exception of a failed listing ends the server's task *)
AfterListFailure_Abort(u) == IdleUnit

(* monitor_repository, lines 152-153: a failed listing is logged and the *)
(* repository's pass ends                                                *)
AfterListFailure(u) == AfterRepo(u)

(* mutant: the exception leaves process_pull_request and ends the          *)
(* repository's pass in the handler of monitor_repository                  *)
AfterPRFailure_Propagate(u) == AfterRepo(u)

(* process_pull_request, lines 211-212: an exception of the fetch or of a *)
(* decision is logged and the PR's pass ends                              *)
AfterPRFailure(u) == AfterPR(u)

PassDone(u) == u.pc # "prs" /\ u.pc # "fetched"

(* Only one task runs at a time; a task gives up control only where it    *)
(* awaits the analysis of a PR, and tasks start in the order of creation. *)
Runnable(s) ==
    /\ phase = "running"
    /\ unit[s].pc # "done"
    /\ \A t \in clients \ {s} :
          \/ unit[t].pc \in {"new", "done"}
          \/ unit[t].pc = "fetched" /\ config.agents_enabled
    /\ unit[s].pc = "new" =>
          \A t \in clients : ServerIndex(t) < ServerIndex(s) => unit[t].pc # "new"

----------------------------------------------------------------------------
(* start_monitoring and monitor_cycle *)

NewCycle ==
    /\ unit' = [s \in clients |-> [IdleUnit EXCEPT !.pc = "new"]]
    /\ tick_log' = EmptyLog
    /\ ticks' = ticks + 1

(* mutant: the test for clients is missing *)
HasClients_Always == TRUE

(* start_monitoring, line 90: "if not self.clients" *)
HasClients == clients # {}

(* start_monitoring, lines 88-96: return without clients, else first cycle *)
StartMonitoring ==
    /\ phase = "init"
    /\ IF ~HasClients
       THEN phase' = "exited" /\ UNCHANGED <<unit, tick_log, ticks>>
       ELSE phase' = "running" /\ NewCycle
    /\ calls' = <<>>
    /\ op' = [NoOp EXCEPT !.name = "start_monitoring"]
    /\ UNCHANGED <<config, world, clients, pr_states, now, attempted, deleted, history>>

(* mutant: the cycle waits for the first task only *)
GatherDone_FirstCompleted == \E s \in clients : unit[s].pc = "done"

(* monitor_cycle, lines 114-115: gather returns when every task has ended *)
GatherDone == \A s \in clients : unit[s].pc = "done"

(* monitor_cycle, line 115, and start_monitoring, line 97: gather returned *)
CycleDone ==
    /\ phase = "running"
    /\ GatherDone
    /\ phase' = "sleeping"
    /\ calls' = <<>>
    /\ op' = [NoOp EXCEPT !.name = "cycle_done", !.sleep = config.poll_interval]
    /\ UNCHANGED <<config, world, clients, pr_states, now, ticks, unit, tick_log,
                   attempted, deleted, history>>

(* start_monitoring, lines 94-97: the sleep is over, the next cycle starts *)
Wake ==
    /\ phase = "sleeping"
    /\ ticks < world.cycles
    /\ phase' = "running"
    /\ NewCycle
    /\ calls' = <<>>
    /\ op' = [NoOp EXCEPT !.name = "wake"]
    /\ UNCHANGED <<config, world, clients, pr_states, now, attempted, deleted, history>>

(* mutant: the longer of the two durations *)
ErrorSleep_Max(poll_interval) ==
    IF poll_interval > ErrorSleepCap THEN poll_interval ELSE ErrorSleepCap

(* start_monitoring, line 103: min(poll_interval, 30) *)
ErrorSleep(poll_interval) ==
    IF poll_interval < ErrorSleepCap THEN poll_interval ELSE ErrorSleepCap

(* mutant: any error leaves the loop *)
TopLevelHandler_BreakOnError(exc) ==
    CASE exc = "CancelledError" -> "propagate"
      [] OTHER -> "break"

(* mutant: a bare "except" that treats every error alike *)
TopLevelHandler_CatchAll(exc) == "retry"

(* start_monitoring, lines 98-103: KeyboardInterrupt leaves the loop, any    *)
(* other Exception is logged and followed by a sleep; an error that is no    *)
(* Exception (the cancellation of the main task) is caught by neither clause *)
TopLevelHandler(exc) ==
    CASE exc = "KeyboardInterrupt" -> "break"
      [] exc = "CancelledError" -> "propagate"
      [] OTHER -> "retry"

(* cli.monitor, lines 94-97: start_monitoring returned, or asyncio.run raised *)
(* KeyboardInterrupt, which is caught; the command ends without an error     *)
cli_monitor(how) ==
    CASE how = "break" -> "exit_0"
      [] how = "propagate" -> "exit_0"

(* an error raised by monitor_cycle before it has created its tasks *)
CycleError ==
    /\ phase = "running"
    /\ \A s \in clients : unit[s].pc = "new"
    /\ LET how == TopLevelHandler("RuntimeError")
       IN IF how = "retry"
          THEN /\ phase' = "sleeping"
               /\ unit' = [s \in clients |-> IdleUnit]
               /\ op' = [NoOp EXCEPT !.name = "cycle_error", !.outcome = how,
                                     !.sleep = ErrorSleep(config.poll_interval)]
          ELSE /\ phase' = "stopped"
               /\ unit' = unit
               /\ op' = [NoOp EXCEPT !.name = "cycle_error", !.outcome = how]
    /\ calls' = <<>>
    /\ UNCHANGED <<config, world, clients, pr_states, now, ticks, tick_log,
                   attempted, deleted, history>>

(* the interrupt signal: KeyboardInterrupt raised in start_monitoring, or the *)
(* cancellation of the main task by the signal handler of asyncio.run; the    *)
(* tasks of the cycle are abandoned where they are                            *)
Interrupt ==
    /\ phase \in {"running", "sleeping"}
    /\ \E exc \in {"KeyboardInterrupt", "CancelledError"} :
          LET how == TopLevelHandler(exc)
          IN IF how = "retry"
             THEN /\ phase' = "sleeping"
                  /\ unit' = [s \in clients |-> IdleUnit]
                  /\ op' = [NoOp EXCEPT !.name = "interrupt", !.outcome = how,
                                        !.sleep = ErrorSleep(config.poll_interval)]
             ELSE /\ phase' = "stopped"
                  /\ unit' = unit
                  /\ op' = [NoOp EXCEPT !.name = "interrupt",
                                        !.outcome = cli_monitor(how)]
    /\ calls' = <<>>
    /\ UNCHANGED <<config, world, clients, pr_states, now, ticks, tick_log,
                   attempted, deleted, history>>

(* time passes while the loop sleeps *)
AdvanceTime ==
    /\ phase = "sleeping"
    /\ now + ClockStep <= MaxTime
    /\ now' = now + ClockStep
    /\ calls' = <<>>
    /\ op' = [NoOp EXCEPT !.name = "advance_time"]
    /\ UNCHANGED <<config, world, clients, pr_states, phase, ticks, unit, tick_log,
                   attempted, deleted, history>>

(* monitor_server, lines 124-131 *)
MonitorServer(s) ==
    /\ Runnable(s)
    /\ unit[s].pc = "new"
    /\ unit' = [unit EXCEPT ![s] =
                   IF config.repositories = <<>>
                   THEN IdleUnit
                   ELSE [IdleUnit EXCEPT !.pc = "repo", !.idx = 1]]
    /\ calls' = <<>>
    /\ op' = [NoOp EXCEPT !.name = "monitor_server", !.server = s]
    /\ UNCHANGED <<config, world, clients, pr_states, now, phase, ticks, tick_log,
                   attempted, deleted, history>>

----------------------------------------------------------------------------
(* monitor_repository and process_pull_request *)

(* an error that no handler of the monitor catches ends the event loop and *)
(* with it the program                                                    *)
Crash(s, repository, exc) ==
    /\ phase' = "crashed"
    /\ op' = [NoOp EXCEPT !.name = "crash", !.server = s, !.repository = repository,
                          !.outcome = exc]
    /\ UNCHANGED <<unit, tick_log>>

Put(f, k, v) == [x \in DOMAIN f \cup {k} |-> IF x = k THEN v ELSE f[x]]

(* mutant: one dictionary of PRState for all servers *)
StorePRState_OneMap(states, server_name, number, pr_state) ==
    [t \in DOMAIN states |-> Put(states[t], number, pr_state)]

(* process_pull_request, lines 162-166: self.pr_states[server_name][pr.number] *)
StorePRState(states, server_name, number, pr_state) ==
    [states EXCEPT ![server_name] = Put(@, number, pr_state)]

Numbers(prs) == {prs[i].number : i \in DOMAIN prs}

(* mutant: PRs that are no longer listed as open are dropped from the store *)
StoreAfterListing_Prune(states, repository, pull_requests) ==
    [n \in {m \in DOMAIN states : states[m].pr.repository = repository
                                    => m \in Numbers(pull_requests)} |-> states[n]]

(* monitor_repository, lines 147-150: the listing is only iterated over; no *)
(* statement removes the PRState of a PR that is missing from it            *)
StoreAfterListing(states, repository, pull_requests) == states

(* monitor_repository, lines 145-153: list the open PRs of one repository *)
ListPRs(s) ==
    /\ Runnable(s)
    /\ unit[s].pc = "repo"
    /\ LET u == unit[s]
           repository == config.repositories[u.idx]
       IN \E response \in world.reads[s] :
          \E pull_requests \in (IF response = "ok" THEN PRLists(repository) ELSE {<<>>}) :
             LET exc == make_request(response)
                 ok == exc = "ok"
                 next == IF ~ok THEN AfterListFailure(u)
                         ELSE IF pull_requests = <<>> THEN AfterRepo(u)
                         ELSE [u EXCEPT !.pc = "prs", !.pull_requests = pull_requests,
                                        !.i = 1]
             IN IF ok \/ CaughtByMonitor(exc)
                THEN /\ unit' = [unit EXCEPT ![s] = next]
                     /\ tick_log' = [tick_log EXCEPT
                           !.listed = @ \cup {<<s, repository>>},
                           !.failed = IF ok THEN @ ELSE @ \cup {<<s, repository>>},
                           !.returned = @ \cup {<<s, repository, n>> :
                                                   n \in Numbers(pull_requests)}]
                     /\ op' = [NoOp EXCEPT !.name = "list", !.server = s,
                                           !.repository = repository,
                                           !.outcome = IF ok THEN "ok" ELSE "error",
                                           !.pass_done = PassDone(next),
                                           !.open = Numbers(pull_requests)]
                     /\ pr_states' = [pr_states EXCEPT ![s] =
                           IF ok THEN StoreAfterListing(@, repository, pull_requests)
                           ELSE @]
                     /\ attempted' = [attempted EXCEPT ![s] =
                           [n \in DOMAIN pr_states'[s] |-> @[n]]]
                     /\ phase' = phase
                ELSE /\ Crash(s, repository, exc)
                     /\ UNCHANGED <<pr_states, attempted>>
    /\ calls' = <<>>
    /\ UNCHANGED <<config, world, clients, now, ticks, deleted, history>>

(* process_pull_request, lines 169-175, in the order of the statements: the *)
(* two assignments to the PRState, then the two fetches                     *)
FetchEvents == <<"pr", "last_updated", "get_workflow_runs", "get_check_runs">>

(* process_pull_request, lines 159-175: touch the PRState, fetch the runs *)
FetchPR(s) ==
    /\ Runnable(s)
    /\ unit[s].pc = "prs"
    /\ LET u == unit[s]
           pr == u.pull_requests[u.i]
           prev_head == IF pr.number \in DOMAIN pr_states[s]
                        THEN pr_states[s][pr.number].pr.head_sha
                        ELSE None
       IN /\ pr_states' = StorePRState(pr_states, s, pr.number,
                                       TouchPRState(pr_states[s], pr, now))
          /\ attempted' = [attempted EXCEPT ![s] =
                              Put(@, pr.number,
                                  IF prev_head = pr.head_sha THEN @[pr.number] ELSE {})]
          /\ \E response \in world.reads[s] :
             \E workflow_runs \in (IF response = "ok" THEN RunLists ELSE {<<>>}) :
             \E check_runs \in (IF response = "ok" THEN CheckLists ELSE {<<>>}) :
                LET exc == make_request(response)
                    ok == exc = "ok"
                    next == IF ok
                            THEN [u EXCEPT !.pc = "fetched", !.prev_head = prev_head,
                                           !.workflow_runs = workflow_runs,
                                           !.check_runs = check_runs]
                            ELSE AfterPRFailure(u)
                IN IF ok \/ CaughtByMonitor(exc)
                   THEN /\ unit' = [unit EXCEPT ![s] = next]
                        /\ tick_log' = [tick_log EXCEPT
                              !.processed = Append(@, <<s, pr.repository, pr.number>>),
                              !.errors = IF ok THEN @
                                         ELSE @ \cup {<<s, pr.repository, pr.number>>}]
                        /\ op' = [NoOp EXCEPT !.name = "fetch", !.server = s,
                                              !.repository = pr.repository,
                                              !.number = pr.number,
                                              !.prev_head = prev_head,
                                              !.outcome = IF ok THEN "ok" ELSE "fetch_failed",
                                              !.events = IF ok THEN FetchEvents
                                                         ELSE SubSeq(FetchEvents, 1, 2),
                                              !.pass_done = PassDone(next),
                                              !.open = Numbers(u.pull_requests)]
                        /\ phase' = phase
                   ELSE Crash(s, pr.repository, exc)
    /\ calls' = <<>>
    /\ UNCHANGED <<config, world, clients, now, ticks, deleted, history>>

(* process_pull_request, lines 177-209, in the order of the statements: the  *)
(* analysis when a team is configured, the approve calls and the assignment  *)
(* of last_workflow_runs (line 247), the fix request and the assignment of   *)
(* last_check_runs (line 284); d is the result of the decisions              *)
PassEvents(cfg, analysis, d) ==
    (IF analysis = "skipped" THEN <<>> ELSE <<"analyze_pr">>)
    \o [i \in DOMAIN SelectSeq(d.calls, LAMBDA c : c.fn = "approve_workflow_run")
           |-> "approve_workflow_run"]
    \o (IF cfg.auto_approve_actions /\ d.outcome \in {"fix_raised", "completed"}
        THEN <<"last_workflow_runs">> ELSE <<>>)
    \o [i \in DOMAIN SelectSeq(d.calls, LAMBDA c : c.fn = "request_copilot_fix")
           |-> "request_copilot_fix"]
    \o (IF cfg.auto_fix_with_copilot /\ d.outcome = "completed"
        THEN <<"last_check_runs">> ELSE <<>>)

ApproveIds(issued) ==
    {issued[i].run_id : i \in {j \in DOMAIN issued : issued[j].fn = "approve_workflow_run"}}

(* mutant: an error of the analysis aborts the pass like any other error *)
ProcessAfterFetch_AnalysisAborts(cfg, analysis, pr, workflow_runs, check_runs, pr_state, responses, response) ==
    IF analysis = "error"
    THEN [state |-> pr_state, calls |-> <<>>, outcome |-> "analysis_raised"]
    ELSE DecidePR(cfg, pr, workflow_runs, check_runs, pr_state, responses, response)

(* process_pull_request, lines 177-209: the reports of the analysis are only *)
(* logged and its error is caught at line 198; then the two decisions        *)
ProcessAfterFetch(cfg, analysis, pr, workflow_runs, check_runs, pr_state, responses, response) ==
    DecidePR(cfg, pr, workflow_runs, check_runs, pr_state, responses, response)

(* process_pull_request, lines 177-212: analysis, then the two decisions *)
DecideStep(s) ==
    /\ Runnable(s)
    /\ unit[s].pc = "fetched"
    /\ LET u == unit[s]
           pr == u.pull_requests[u.i]
           pr_state == pr_states[s][pr.number]
           candidates == ApprovalCandidates(u.workflow_runs, pr, pr_state)
           asks == /\ config.auto_fix_with_copilot
                   /\ FailingChecks(u.check_runs) # <<>>
                   /\ ~pr_state.copilot_requested
       IN \E analysis \in (IF config.agents_enabled THEN AnalysisOutcomes
                           ELSE {"skipped"}) :
          \E responses \in [candidates -> IF config.auto_approve_actions
                                          THEN world.writes[s] ELSE {"ok"}] :
          \E response \in (IF asks THEN world.writes[s] ELSE {"ok"}) :
             LET d == ProcessAfterFetch(config, analysis, pr, u.workflow_runs,
                                        u.check_runs, pr_state, responses, response)
                 next == IF d.outcome = "completed" THEN AfterPR(u)
                         ELSE AfterPRFailure(u)
             IN /\ pr_states' = [pr_states EXCEPT ![s][pr.number] = d.state]
                /\ calls' = d.calls
                /\ attempted' = [attempted EXCEPT ![s][pr.number] =
                                    @ \cup ApproveIds(d.calls)]
                /\ history' = history \cup
                      {<<s, pr.repository, pr.number, d.calls[i].run_id>> :
                          i \in {j \in DOMAIN d.calls :
                                    /\ d.calls[j].fn = "approve_workflow_run"
                                    /\ d.calls[j].result = "true"}}
                /\ unit' = [unit EXCEPT ![s] = next]
                /\ tick_log' = [tick_log EXCEPT
                      !.errors = IF d.outcome = "completed" THEN @
                                 ELSE @ \cup {<<s, pr.repository, pr.number>>}]
                /\ op' = [NoOp EXCEPT !.name = "decide", !.server = s,
                                      !.repository = pr.repository,
                                      !.number = pr.number,
                                      !.prev_head = u.prev_head,
                                      !.outcome = d.outcome,
                                      !.analysis = analysis,
                                      !.events = FetchEvents \o PassEvents(config, analysis, d),
                                      !.candidates = candidates,
                                      !.failing = FailingChecks(u.check_runs) # <<>>,
                                      !.pass_done = PassDone(next),
                                      !.open = Numbers(u.pull_requests)]
    /\ UNCHANGED <<config, world, clients, now, phase, ticks, deleted>>

Removed(before, after) ==
    {<<s, n>> \in clients \X world.numbers :
        n \in DOMAIN before[s] /\ n \notin DOMAIN after[s]}

(* cleanup_stale_prs, called from outside the monitoring coroutine *)
Cleanup ==
    /\ phase \in {"init", "sleeping", "exited"}
    /\ \E max_age_hours \in MaxAges :
          /\ pr_states' = cleanup_stale_prs(pr_states, now, max_age_hours)
          /\ op' = [NoOp EXCEPT !.name = "cleanup", !.max_age = max_age_hours,
                                !.removed = Removed(pr_states, pr_states')]
    /\ deleted' = deleted \cup
          {<<x[1], x[2], pr_states[x[1]][x[2]].approved_runs>> :
              x \in Removed(pr_states, pr_states')}
    /\ attempted' = [s \in clients |->
                        [n \in DOMAIN pr_states'[s] |-> attempted[s][n]]]
    /\ calls' = <<>>
    /\ UNCHANGED <<config, world, clients, now, phase, ticks, unit, tick_log, history>>

RECURSIVE CountLoop_LastOnly(_, _)
(* mutant: the total is assigned, not accumulated *)
CountLoop_LastOnly(servers, total) ==
    IF servers = <<>> THEN total
    ELSE CountLoop_LastOnly(Tail(servers),
                            IF Head(servers).name \in DOMAIN pr_states
                            THEN Cardinality(DOMAIN pr_states[Head(servers).name])
                            ELSE total)

RECURSIVE CountLoop(_, _)
(* get_monitoring_stats, lines 299-302: the loop over self.pr_states, whose *)
(* keys were inserted in the order of config.github_servers                 *)
CountLoop(servers, total) ==
    IF servers = <<>> THEN total
    ELSE CountLoop(Tail(servers),
                   IF Head(servers).name \in DOMAIN pr_states
                   THEN total + Cardinality(DOMAIN pr_states[Head(servers).name])
                   ELSE total)

get_monitoring_stats ==
    [servers |-> Cardinality(clients),
     total_prs |-> CountLoop(config.github_servers, 0),
     active_prs_by_server |->
         [s \in DOMAIN pr_states |-> Cardinality(DOMAIN pr_states[s])],
     repositories |-> config.repositories]

(* get_monitoring_stats, called while the monitor object exists *)
GetMonitoringStats ==
    /\ phase \in {"init", "running", "sleeping", "exited"}
    /\ op' = [NoOp EXCEPT !.name = "stats", !.stats = get_monitoring_stats]
    /\ calls' = <<>>
    /\ UNCHANGED <<config, world, clients, pr_states, now, phase, ticks, unit,
                   tick_log, attempted, deleted, history>>

(* mutant: the test for repositories is missing *)
ConfigValid_TokenOnly(cfg) ==
    \E i \in DOMAIN cfg.github_servers : cfg.github_servers[i].token

(* cli.monitor, lines 68 and 76: some server has a token, and the list of *)
(* repositories is not empty                                             *)
ConfigValid(cfg) ==
    /\ \E i \in DOMAIN cfg.github_servers : cfg.github_servers[i].token
    /\ cfg.repositories # <<>>

(* cli.monitor, lines 63-92: sys.exit(1) on an invalid configuration, else *)
(* PRMonitor(config); start_monitoring is the next step                    *)
MonitorCommand ==
    /\ phase = "cli"
    /\ IF ConfigValid(config)
       THEN /\ phase' = "init"
            /\ clients' = Tokened(config)
            /\ pr_states' = [s \in Tokened(config) |-> EmptyMap]
            /\ unit' = [s \in Tokened(config) |-> IdleUnit]
            /\ attempted' = [s \in Tokened(config) |-> EmptyMap]
       ELSE /\ phase' = "exit_1"
            /\ UNCHANGED <<clients, pr_states, unit, attempted>>
    /\ op' = [NoOp EXCEPT !.name = "monitor"]
    /\ calls' = <<>>
    /\ UNCHANGED <<config, world, now, ticks, tick_log, deleted, history>>

(* a caller builds a PRState of its own, as                                *)
(* test_copilot_request_reset_on_sha_change does: PRState(pr=old_pr) with  *)
(* copilot_requested set by hand                                           *)
MakePRState(s) ==
    /\ phase = "direct"
    /\ \E number \in world.numbers, head_sha \in world.shas, requested \in BOOLEAN :
          LET pr == PullRequest(number, head_sha, config.repositories[1])
              pr_state == [NewPRState(pr, now) EXCEPT !.copilot_requested = requested]
          IN /\ pr_states' = [pr_states EXCEPT ![s] = Put(@, number, pr_state)]
             /\ op' = [NoOp EXCEPT !.name = "PRState", !.server = s,
                                   !.number = number, !.head = head_sha,
                                   !.requested = requested]
    /\ calls' = <<>>
    /\ UNCHANGED <<config, world, clients, now, phase, ticks, unit, tick_log,
                   attempted, deleted, history>>

(* process_check_runs called on its own with a PR, a list of check runs and *)
(* a PRState; an exception of the request leaves the PRState as it was      *)
CallProcessCheckRuns(s) ==
    /\ phase = "direct"
    /\ \E number \in DOMAIN pr_states[s], head_sha \in world.shas :
       \E check_runs \in CheckLists, response \in world.writes[s] :
          LET pr == PullRequest(number, head_sha, config.repositories[1])
              pr_state == pr_states[s][number]
              r == process_check_runs(config, pr, check_runs, pr_state, response)
          IN /\ pr_states' = [pr_states EXCEPT ![s][number] = r.state]
             /\ calls' = r.calls
             /\ op' = [NoOp EXCEPT !.name = "process_check_runs", !.server = s,
                                   !.number = number, !.head = head_sha,
                                   !.prev_head = pr_state.pr.head_sha,
                                   !.requested = pr_state.copilot_requested,
                                   !.outcome = IF r.raised THEN "fix_raised"
                                               ELSE "completed"]
    /\ UNCHANGED <<config, world, clients, now, phase, ticks, unit, tick_log,
                   attempted, deleted, history>>

Next ==
    \/ StartMonitoring
    \/ CycleDone
    \/ Wake
    \/ AdvanceTime
    \/ Cleanup
    \/ \E s \in clients : MonitorServer(s)
    \/ \E s \in clients : ListPRs(s)
    \/ \E s \in clients : FetchPR(s)
    \/ \E s \in clients : DecideStep(s)

(* the monitor with its callers: the interrupt signal, an error of a cycle *)
(* and the statistics query                                                *)
NextControl ==
    \/ StartMonitoring
    \/ CycleDone
    \/ Wake
    \/ AdvanceTime
    \/ Cleanup
    \/ CycleError
    \/ Interrupt
    \/ GetMonitoringStats
    \/ \E s \in clients : MonitorServer(s)
    \/ \E s \in clients : ListPRs(s)
    \/ \E s \in clients : FetchPR(s)
    \/ \E s \in clients : DecideStep(s)

(* a step of one of the tasks of the cycle *)
TaskStep ==
    \E s \in clients : MonitorServer(s) \/ ListPRs(s) \/ FetchPR(s) \/ DecideStep(s)

(* the loop and its tasks, an error of a cycle and the interrupt signal *)
NextLive ==
    \/ StartMonitoring
    \/ CycleDone
    \/ Wake
    \/ CycleError
    \/ Interrupt
    \/ \E s \in clients : MonitorServer(s)
    \/ \E s \in clients : ListPRs(s)
    \/ \E s \in clients : FetchPR(s)
    \/ \E s \in clients : DecideStep(s)

(* the event loop runs what is ready: a started coroutine goes on to its    *)
(* next await, a task whose request returned or raised is resumed, gather   *)
(* returns when its tasks have ended, and a sleep ends                      *)
Scheduling ==
    /\ WF_vars(StartMonitoring)
    /\ WF_vars(TaskStep)
    /\ WF_vars(CycleDone)
    /\ WF_vars(Wake)

(* the methods of the monitor called one by one, as the unit tests do *)
NextDirect ==
    \/ \E s \in clients : MakePRState(s)
    \/ \E s \in clients : CallProcessCheckRuns(s)

(* the monitor started by the command line *)
NextCli ==
    \/ MonitorCommand
    \/ StartMonitoring
    \/ CycleDone
    \/ Wake
    \/ AdvanceTime
    \/ Cleanup
    \/ \E s \in clients : MonitorServer(s)
    \/ \E s \in clients : ListPRs(s)
    \/ \E s \in clients : FetchPR(s)
    \/ \E s \in clients : DecideStep(s)

----------------------------------------------------------------------------
(* Configurations and world universes *)

ServerNames == {"s1", "s2", "s3"}

(* every server answers alike *)
Uniform(answers) == [s \in ServerNames |-> answers]

OneServer == <<[name |-> "s1", token |-> TRUE]>>

Config(servers, repositories) ==
    [github_servers |-> servers, repositories |-> repositories,
     auto_approve_actions |-> TRUE, auto_fix_with_copilot |-> TRUE,
     agents_enabled |-> FALSE, poll_interval |-> DefaultPollInterval]

ConfigWith(servers, repositories, approve, fix, agents) ==
    [Config(servers, repositories) EXCEPT !.auto_approve_actions = approve,
                                          !.auto_fix_with_copilot = fix,
                                          !.agents_enabled = agents]

(* one PR with two runs that change status; one failing check *)
ApprovalWorld ==
    [numbers |-> {1}, shas |-> {"a", "b"},
     runs |-> {WorkflowRun("w1", "queued", {1}), WorkflowRun("w1", "completed", {1}),
               WorkflowRun("w2", "waiting", {1}), WorkflowRun("w2", "queued", {})},
     checks |-> {CheckRun("c1", "completed", "failure")},
     reads |-> Uniform({"ok", "conn_error"}), writes |-> Uniform(Responses),
     cycles |-> MaxTicks]

(* one PR with two checks that change result; one queued run *)
FixWorld ==
    [numbers |-> {1}, shas |-> {"a", "b"},
     runs |-> {WorkflowRun("w1", "queued", {1})},
     checks |-> {CheckRun("c1", "completed", "failure"),
                 CheckRun("c1", "completed", "success"),
                 CheckRun("c2", "completed", "failure"),
                 CheckRun("c2", "in_progress", None)},
     reads |-> Uniform({"ok", "conn_error"}), writes |-> Uniform(Responses),
     cycles |-> MaxTicks]

(* two PRs that come and go and share one queued run *)
SweepWorld ==
    [numbers |-> {1, 2}, shas |-> {"a"},
     runs |-> {WorkflowRun("w1", "queued", {1, 2})},
     checks |-> {},
     reads |-> Uniform({"ok", "conn_error"}), writes |-> Uniform(Responses),
     cycles |-> MaxTicks]

(* the same PR number in every repository of every server; one failing check *)
FanOutWorld ==
    [numbers |-> {1}, shas |-> {"a"}, runs |-> {},
     checks |-> {CheckRun("c1", "completed", "failure")},
     reads |-> Uniform({"ok", "conn_error"}), writes |-> Uniform(Responses),
     cycles |-> MaxTicks]

(* one PR per server that comes and goes, with a queued run *)
ControlWorld ==
    [numbers |-> {1}, shas |-> {"a"},
     runs |-> {WorkflowRun("w1", "queued", {1})},
     checks |-> {},
     reads |-> Uniform({"ok"}), writes |-> Uniform({"ok"}),
     cycles |-> MaxTicks]

TwoServers == <<[name |-> "s1", token |-> TRUE], [name |-> "s2", token |-> TRUE]>>

(* one server, one repository, one PR: the decisions of a pass *)
Init ==
    \/ InitWith(Config(OneServer, <<"r1">>), ApprovalWorld)
    \/ InitWith(Config(OneServer, <<"r1">>), FixWorld)

Spec == Init /\ [][Next]_vars

(* several PRs, repositories and servers: tracking, fan-out and cleanup *)
InitFleet ==
    \/ InitWith(Config(OneServer, <<"r1">>), SweepWorld)
    \/ InitWith(Config(TwoServers, <<"r1", "r2">>), FanOutWorld)
    \/ InitWith(Config(OneServer, <<"r1", "r2">>), ControlWorld)

SpecFleet == InitFleet /\ [][Next]_vars

(* one PR whose run and check change status *)
ToggleWorld ==
    [numbers |-> {1}, shas |-> {"a"},
     runs |-> {WorkflowRun("w1", "queued", {1}), WorkflowRun("w1", "completed", {1})},
     checks |-> {CheckRun("c1", "completed", "failure"),
                 CheckRun("c1", "completed", "success")},
     reads |-> Uniform({"ok", "conn_error"}), writes |-> Uniform(Responses),
     cycles |-> MaxTicks]

(* one PR per server with a queued run and a failing check *)
AgentsWorld ==
    [numbers |-> {1}, shas |-> {"a"},
     runs |-> {WorkflowRun("w1", "queued", {1})},
     checks |-> {CheckRun("c1", "completed", "failure")},
     reads |-> Uniform({"ok"}), writes |-> Uniform({"ok", "conn_error"}),
     cycles |-> MaxTicks]

(* the token of s1 is rejected at any request; s2 answers every request *)
AuthWorld ==
    [numbers |-> {1}, shas |-> {"a"},
     runs |-> {WorkflowRun("w1", "queued", {1})},
     checks |-> {CheckRun("c1", "completed", "failure")},
     reads |-> [s \in ServerNames |-> IF s = "s1" THEN {"ok", "unauthorized"} ELSE {"ok"}],
     writes |-> [s \in ServerNames |-> IF s = "s1" THEN {"ok", "unauthorized"} ELSE {"ok"}],
     cycles |-> MaxTicks]

(* the switches of the configuration, the analysis and a rejected token *)
InitOptions ==
    \/ InitWith(ConfigWith(OneServer, <<"r1">>, FALSE, TRUE, FALSE), ToggleWorld)
    \/ InitWith(ConfigWith(OneServer, <<"r1">>, TRUE, FALSE, FALSE), ToggleWorld)
    \/ InitWith(ConfigWith(TwoServers, <<"r1">>, TRUE, TRUE, TRUE), AgentsWorld)
    \/ InitWith(Config(TwoServers, <<"r1">>), AuthWorld)

SpecOptions == InitOptions /\ [][Next]_vars

(* the configuration of test_start_monitoring_no_clients *)
NoToken == <<[name |-> "s1", token |-> FALSE]>>

ThreeServers == <<[name |-> "s1", token |-> TRUE], [name |-> "s2", token |-> TRUE],
                  [name |-> "s3", token |-> FALSE]>>

(* a short and the default poll interval; a server without a token *)
InitControl ==
    \/ InitWith([Config(OneServer, <<"r1">>) EXCEPT !.poll_interval = 10], ToggleWorld)
    \/ InitWith(Config(ThreeServers, <<"r1">>), ControlWorld)
    \/ InitWith(Config(NoToken, <<"r1">>), ControlWorld)

SpecControl == InitControl /\ [][NextControl]_vars

(* one PR per server with a queued run; listings, fetches and approvals fail *)
LiveWorld ==
    [numbers |-> {1}, shas |-> {"a"},
     runs |-> {WorkflowRun("w1", "queued", {1})},
     checks |-> {},
     reads |-> Uniform({"ok", "conn_error"}),
     writes |-> Uniform({"ok", "conn_error"}),
     cycles |-> MaxTicks]

InitLive == InitWith(Config(TwoServers, <<"r1">>), LiveWorld)

(* the loop with its callers, run by an event loop that schedules fairly *)
SpecLive == InitLive /\ [][NextLive]_vars /\ Scheduling

(* a constructed monitor whose loop is not started *)
InitDirect ==
    /\ config = Config(OneServer, <<"r1">>)
    /\ world = FixWorld
    /\ clients = Tokened(config)
    /\ pr_states = [s \in clients |-> EmptyMap]
    /\ now = 0
    /\ phase = "direct"
    /\ ticks = 0
    /\ unit = [s \in clients |-> IdleUnit]
    /\ calls = <<>>
    /\ op = NoOp
    /\ tick_log = EmptyLog
    /\ attempted = [s \in clients |-> EmptyMap]
    /\ deleted = {}
    /\ history = {}

SpecDirect == InitDirect /\ [][NextDirect]_vars

(* the command line before the monitor exists *)
BeforeCommand(cfg, universe) ==
    /\ config = cfg
    /\ world = universe
    /\ clients = {}
    /\ pr_states = [s \in {} |-> EmptyMap]
    /\ now = 0
    /\ phase = "cli"
    /\ ticks = 0
    /\ unit = [s \in {} |-> IdleUnit]
    /\ calls = <<>>
    /\ op = NoOp
    /\ tick_log = EmptyLog
    /\ attempted = [s \in {} |-> EmptyMap]
    /\ deleted = {}
    /\ history = {}

(* a valid configuration, and the three invalid ones: no token (test_cli *)
(* line 88), no repository (line 95), neither                            *)
InitCli ==
    \/ BeforeCommand(Config(ThreeServers, <<"r1">>), ControlWorld)
    \/ BeforeCommand(Config(OneServer, <<"r1">>), ToggleWorld)
    \/ BeforeCommand(Config(NoToken, <<"r1">>), ControlWorld)
    \/ BeforeCommand(Config(OneServer, <<>>), ControlWorld)
    \/ BeforeCommand(Config(NoToken, <<>>), ControlWorld)

SpecCli == InitCli /\ [][NextCli]_vars

----
(* Observations shared by the properties *)

Tracked == {<<s, n>> \in clients \X world.numbers : n \in DOMAIN pr_states[s]}

(* the step just taken was the decision part of a pass of PR n on server s *)
Decided(s, n) == op.name = "decide" /\ op.server = s /\ op.number = n

Submitted(issued, run_id) ==
    \E i \in DOMAIN issued :
        issued[i].fn = "approve_workflow_run" /\ issued[i].run_id = run_id

FixCalls(issued) == SelectSeq(issued, LAMBDA c : c.fn = "request_copilot_fix")

----------------------------------------------------------------------------
C3_RetryEveryTick ==
    [][\A s \in clients :
          (unit[s].pc = "fetched" /\ op'.name = "decide" /\ op'.server = s) =>
             LET u == unit[s]
                 pr == u.pull_requests[u.i]
             IN \A i \in DOMAIN u.workflow_runs :
                   LET run == u.workflow_runs[i]
                   IN (/\ run.id \in attempted[s][pr.number]
                       /\ NeedsApproval(run, pr, pr_states[s][pr.number].approved_runs))
                      => Submitted(calls', run.id)]_vars

(* C7: while a PRState exists, no step removes a run id from approved_runs *)
C7_ApprovedRunsMonotone ==
    [][\A <<s, n>> \in Tracked :
          n \in DOMAIN pr_states'[s] =>
             pr_states[s][n].approved_runs \subseteq pr_states'[s][n].approved_runs]_vars

(* C7 witness: a pass that saw a new head commit and completed with a run *)
(* approved under the old head still recorded and not submitted again     *)
C7_Witness ==
    \E <<s, n>> \in Tracked :
        /\ Decided(s, n)
        /\ op.outcome = "completed"
        /\ op.prev_head \notin {None, pr_states[s][n].pr.head_sha}
        /\ \E r \in pr_states[s][n].approved_runs :
              /\ r \in DOMAIN pr_states[s][n].last_workflow_runs
              /\ pr_states[s][n].last_workflow_runs[r].status \in {"queued", "waiting"}
              /\ ~Submitted(calls, r)

----------------------------------------------------------------------------
(* C2 as stated: after a successful request_copilot_fix no further request is *)
(* made while the head commit stays the same, and a pass that sees a new head *)
(* commit with a completed/failure check makes exactly one request            *)
C2_OncePerHead ==
    [][\A <<s, n>> \in Tracked :
          Decided(s, n)' =>
             LET pr_state == pr_states[s][n]
                 failing == FailingChecks(unit[s].check_runs)
             IN /\ (op'.prev_head = pr_state.pr.head_sha /\ pr_state.copilot_requested)
                      => FixCalls(calls') = <<>>
                /\ (/\ op'.prev_head \notin {None, pr_state.pr.head_sha}
                    /\ failing # <<>>
                    /\ op'.outcome # "approve_raised")
                      => Len(FixCalls(calls')) = 1]_vars

FixSucceeded(issued) ==
    \E i \in DOMAIN issued :
        issued[i].fn = "request_copilot_fix" /\ issued[i].result = "true"

(* C4 as stated: after a completed pass copilot_requested is true only if a  *)
(* request succeeded for the head commit now stored; a pass that sees a new  *)
(* head resets the flag before deciding, a pass with the same head never     *)
(* resets it                                                                 *)
C4_FlagScopedToHead ==
    [][\A <<s, n>> \in Tracked :
          (Decided(s, n)' /\ op'.outcome = "completed") =>
             LET before == pr_states[s][n]
                 after == pr_states'[s][n]
             IN IF op'.prev_head = before.pr.head_sha
                THEN /\ before.copilot_requested => after.copilot_requested
                     /\ after.copilot_requested =>
                           (before.copilot_requested \/ FixSucceeded(calls'))
                ELSE after.copilot_requested => FixSucceeded(calls')]_vars

----------------------------------------------------------------------------
Configured == {<<s, config.repositories[i]>> : s \in clients,
                                               i \in DOMAIN config.repositories}

Processed == {tick_log.processed[i] : i \in DOMAIN tick_log.processed}

(* C5: when a cycle has finished, get_pull_requests was called for every    *)
(* configured repository of every server, whichever listings failed, and    *)
(* the PRs of the listings that succeeded were processed                    *)
C5_ListingFailureIsolated ==
    phase = "sleeping" =>
        /\ tick_log.listed = Configured
        /\ \A x \in tick_log.returned :
              <<x[1], x[2]>> \notin tick_log.failed => x \in Processed

(* C5 witness: the first repository of a server failed to list; its second *)
(* repository and the other server were still listed and their PRs passed  *)
C5_Witness ==
    /\ phase = "sleeping"
    /\ \E s \in clients, t \in clients :
          /\ s # t
          /\ Len(config.repositories) > 1
          /\ <<s, config.repositories[1]>> \in tick_log.failed
          /\ \E n \in world.numbers : <<s, config.repositories[2], n>> \in Processed
          /\ ServerIndex(s) < ServerIndex(t)
          /\ \E n \in world.numbers : <<t, config.repositories[1], n>> \in Processed

(* C6: when a cycle has finished, every PR returned by a listing of the cycle *)
(* was passed to process_pull_request, whichever fetches and actions raised   *)
C6_PRFailureIsolated ==
    phase = "sleeping" => tick_log.returned \subseteq Processed

(* C6 witness: the pass of one PR raised and a PR listed after it in the same *)
(* repository was processed afterwards                                        *)
C6_Witness ==
    /\ phase = "sleeping"
    /\ \E i, j \in DOMAIN tick_log.processed :
          /\ i < j
          /\ tick_log.processed[i] \in tick_log.errors
          /\ tick_log.processed[i][1] = tick_log.processed[j][1]
          /\ tick_log.processed[i][2] = tick_log.processed[j][2]

----------------------------------------------------------------------------
(* C8: a cleanup sweep removes, on every server, exactly the entries whose   *)
(* last_updated lies more than max_age_hours before now, and leaves every    *)
(* other entry as it was                                                     *)
C8_CleanupExact ==
    [][op'.name = "cleanup" =>
          \A s \in clients :
             /\ DOMAIN pr_states'[s] =
                   {n \in DOMAIN pr_states[s] :
                       pr_states[s][n].last_updated + op'.max_age >= now}
             /\ \A n \in DOMAIN pr_states'[s] : pr_states'[s][n] = pr_states[s][n]]_vars

(* C8 witness: a sweep with the default age removed one entry and kept another *)
C8_Witness ==
    /\ op.name = "cleanup"
    /\ op.max_age = DefaultMaxAgeHours
    /\ \E s \in clients :
          /\ \E n \in world.numbers : <<s, n>> \in op.removed
          /\ DOMAIN pr_states[s] # {}

(* a pass of a repository has just ended after a successful listing *)
RepoPassDone ==
    /\ op.name \in {"list", "fetch", "decide"}
    /\ op.pass_done
    /\ ~(op.name = "list" /\ op.outcome = "error")

TrackedOf(s, repository) ==
    {n \in DOMAIN pr_states[s] : pr_states[s][n].pr.repository = repository}

(* C9 as stated: after a successful pass of a repository the tracked PRs of *)
(* the repository are exactly the PRs listed as open                        *)
C9_ClosedPRsDropped ==
    RepoPassDone => TrackedOf(op.server, op.repository) = op.open

(* C9, as amended: a reconciliation pass never deletes a PRState and changes *)
(* only the PRState of the PR it processes; a PR missing from the listing    *)
(* keeps its PRState until a cleanup sweep removes it                        *)
C9_ClosedPRsRetained ==
    [][op'.name # "cleanup" =>
          \A <<s, n>> \in Tracked :
             /\ n \in DOMAIN pr_states'[s]
             /\ ~(op'.name \in {"fetch", "decide"} /\ op'.server = s /\ op'.number = n)
                   => pr_states'[s][n] = pr_states[s][n]]_vars

(* C9 witness: a successful pass ended while a PR of the repository that the *)
(* listing did not return is still tracked                                   *)
C9_Witness ==
    /\ RepoPassDone
    /\ TrackedOf(op.server, op.repository) \ op.open # {}

(* C10: the first pass that observes a PR number again after a cleanup sweep *)
(* removed its PRState starts from a new PRState: no approved runs, flag     *)
(* false, no recorded runs                                                   *)
C10_FreshAfterDeletion ==
    [][\A s \in clients : \A n \in world.numbers :
          (/\ \E x \in deleted : x[1] = s /\ x[2] = n
           /\ n \notin DOMAIN pr_states[s]
           /\ n \in DOMAIN pr_states'[s])
          => /\ op'.name = "fetch" /\ op'.prev_head = None
             /\ pr_states'[s][n].approved_runs = {}
             /\ ~pr_states'[s][n].copilot_requested
             /\ DOMAIN pr_states'[s][n].last_workflow_runs = {}
             /\ DOMAIN pr_states'[s][n].last_check_runs = {}
             /\ pr_states'[s][n].last_updated = now]_vars

(* C10 witness: a PRState with an approved run was removed; the next pass of *)
(* that PR number started from a new PRState and submitted the same run      *)
(* again                                                                     *)
C10_Witness ==
    \E x \in deleted :
        /\ Decided(x[1], x[2])
        /\ op.prev_head = None
        /\ \E r \in x[3] : Submitted(calls, r)

----------------------------------------------------------------------------
(* C11 as stated: PRState entries are kept per (server, repository, number). *)
(* In the first cycle every (server, repository, number) is passed at most   *)
(* once, so the PRState a pass starts from is a new one: no approved runs,   *)
(* flag false, no recorded runs, whatever was recorded for the same number   *)
(* in another repository of the server                                       *)
C11_KeyedPerRepository ==
    [][(op'.name = "fetch" /\ ticks = 1) =>
          LET pr_state == pr_states'[op'.server][op'.number]
          IN /\ pr_state.approved_runs = {}
             /\ ~pr_state.copilot_requested
             /\ DOMAIN pr_state.last_workflow_runs = {}
             /\ DOMAIN pr_state.last_check_runs = {}]_vars

----------------------------------------------------------------------------
(* C12: the analysis never affects reconciliation.  Whatever the analysis of *)
(* a pass did (skipped, reports, no reports, error), the calls issued, the   *)
(* PRState left and the outcome of the pass are those of the two decisions   *)
(* alone on the fetched runs, for some answers of the server; an error of    *)
(* the analysis does not abort the pass                                      *)
C12_AnalysisNeverAffects ==
    [][\A s \in clients :
          (unit[s].pc = "fetched" /\ op'.name = "decide" /\ op'.server = s) =>
             LET u == unit[s]
                 pr == u.pull_requests[u.i]
                 pr_state == pr_states[s][pr.number]
                 ids == {u.workflow_runs[i].id : i \in DOMAIN u.workflow_runs}
             IN \E responses \in [ids -> world.writes[s]] :
                \E response \in world.writes[s] :
                   LET w == process_workflow_runs(config, pr, u.workflow_runs,
                                                  pr_state, responses)
                       c == process_check_runs(config, pr, u.check_runs, w.state,
                                               response)
                   IN IF w.raised
                      THEN /\ pr_states'[s][pr.number] = w.state
                           /\ calls' = w.calls
                           /\ op'.outcome = "approve_raised"
                      ELSE /\ pr_states'[s][pr.number] = c.state
                           /\ calls' = w.calls \o c.calls
                           /\ op'.outcome = IF c.raised THEN "fix_raised"
                                            ELSE "completed"]_vars

(* C12 witness: the analysis of a pass raised an error and the pass went on *)
(* to approve a run and to request a fix                                    *)
C12_Witness ==
    /\ op.name = "decide"
    /\ op.analysis = "error"
    /\ op.outcome = "completed"
    /\ \E i, j \in DOMAIN calls :
          /\ calls[i].fn = "approve_workflow_run" /\ calls[i].result = "true"
          /\ calls[j].fn = "request_copilot_fix" /\ calls[j].result = "true"

----------------------------------------------------------------------------
(* the tasks that a cycle has created and that have not run yet *)
Launched == {s \in clients : unit[s].pc = "new"}

CycleStarted == phase = "running" /\ op.name \in {"start_monitoring", "wake"}

(* every task of the cycle has ended and has visited all its repositories *)
AllUnitsEnded ==
    /\ \A s \in clients : unit[s].pc = "done"
    /\ tick_log.listed = Configured
    /\ tick_log.returned \subseteq Processed

(* C13 as stated: a cycle launches one unit of work per (server, repository) *)
(* pair, and the sleep begins only after every unit has ended, none skipped  *)
C13_UnitPerPair ==
    /\ CycleStarted => Cardinality(Launched) = Cardinality(Configured)
    /\ phase = "sleeping" => AllUnitsEnded

(* C13, as amended: a cycle launches one task per server with a client; the *)
(* task visits the repositories in turn.  The sleep begins only after every *)
(* task has ended, and a failure in one task skips no repository of any     *)
(* task                                                                     *)
C13_TickBarrier ==
    /\ CycleStarted => Launched = clients
    /\ phase = "sleeping" => AllUnitsEnded

(* C13 witness: in the second cycle every listing of one server failed and *)
(* another server still had all its repositories listed and a PR passed    *)
C13_Witness ==
    /\ op.name = "cycle_done"
    /\ ticks = 2
    /\ Len(config.repositories) > 1
    /\ \E s \in clients, t \in clients :
          /\ s # t
          /\ \A i \in DOMAIN config.repositories :
                /\ <<s, config.repositories[i]>> \in tick_log.failed
                /\ <<t, config.repositories[i]>> \in tick_log.listed \ tick_log.failed
          /\ \E x \in Processed : x[1] = t

----------------------------------------------------------------------------
----------------------------------------------------------------------------
(* C19: the sleep after a cycle whose tasks all ended lasts poll_interval;   *)
(* the sleep after an error of the cycle lasts min(poll_interval, 30): never *)
(* more than 30, never more than poll_interval, and one of the two           *)
C19_SleepDurations ==
    [][/\ op'.name = "cycle_done" => op'.sleep = config.poll_interval
       /\ op'.name = "cycle_error" =>
             /\ op'.sleep <= 30
             /\ op'.sleep <= config.poll_interval
             /\ op'.sleep \in {30, config.poll_interval}]_vars

(* C19 witness: with the default poll interval of 60 the second cycle failed *)
(* and the sleep that follows is shorter than the poll interval              *)
C19_Witness ==
    /\ op.name = "cycle_error"
    /\ phase = "sleeping"
    /\ ticks = 2
    /\ config.poll_interval = 60
    /\ op.sleep < config.poll_interval

----------------------------------------------------------------------------
(* C20: get_monitoring_stats changes no state of the monitor; total_prs is *)
(* the number of PRState entries of all servers, each per-server count the *)
(* number of entries of that server, servers the number of clients and     *)
(* repositories the configured list                                        *)
C20_StatsConsistent ==
    [][op'.name = "stats" =>
          /\ UNCHANGED <<config, clients, pr_states, phase, ticks, unit, now>>
          /\ op'.stats.total_prs = Cardinality(Tracked)
          /\ DOMAIN op'.stats.active_prs_by_server = clients
          /\ \A s \in clients :
                op'.stats.active_prs_by_server[s] = Cardinality(DOMAIN pr_states[s])
          /\ op'.stats.servers = Cardinality(clients)
          /\ op'.stats.repositories = config.repositories]_vars

(* C20 witness: statistics taken while two servers track one PR each and a *)
(* third configured server has no client                                   *)
C20_Witness ==
    /\ op.name = "stats"
    /\ op.stats.total_prs = 2
    /\ op.stats.servers = 2
    /\ Len(config.github_servers) = 3
    /\ \A s \in clients : op.stats.active_prs_by_server[s] = 1

----------------------------------------------------------------------------
(* C15: with auto_approve_actions off no approve_workflow_run call is issued *)
(* and approved_runs of every PRState stays as it was created: empty          *)
C15_NoApprovalWhenOff ==
    ~config.auto_approve_actions =>
        /\ \A i \in DOMAIN calls : calls[i].fn # "approve_workflow_run"
        /\ \A <<s, n>> \in Tracked : pr_states[s][n].approved_runs = {}

(* C15 witness: with the switch off, a pass of the second cycle fetched a run *)
(* that is queued for the PR and not approved, and completed                  *)
C15_Witness ==
    /\ ~config.auto_approve_actions
    /\ op.name = "decide"
    /\ op.outcome = "completed"
    /\ ticks = 2
    /\ op.candidates # {}

(* C16: with auto_fix_with_copilot off no request_copilot_fix call is issued *)
(* and copilot_requested of every PRState stays false                        *)
C16_NoFixWhenOff ==
    ~config.auto_fix_with_copilot =>
        /\ FixCalls(calls) = <<>>
        /\ \A <<s, n>> \in Tracked : ~pr_states[s][n].copilot_requested

(* C16 witness: with the switch off, a pass of the second cycle fetched a *)
(* completed/failure check and completed                                  *)
C16_Witness ==
    /\ ~config.auto_fix_with_copilot
    /\ op.name = "decide"
    /\ op.outcome = "completed"
    /\ ticks = 2
    /\ op.failing

----------------------------------------------------------------------------
----------------------------------------------------------------------------
(* a server whose every request is answered *)
Healthy(t) == world.reads[t] = {"ok"} /\ world.writes[t] = {"ok"}

(* a server that answers requests with status 401 *)
Rejecting(s) == "unauthorized" \in world.reads[s] \cup world.writes[s]

(* C18: a 401 answer to a listing, a fetch, an approval or a fix request of  *)
(* one server never ends the program, and at the end of every cycle every    *)
(* server that answers its requests had all its repositories listed and all  *)
(* its listed PRs passed without error                                       *)
C18_AuthFailureContained ==
    /\ phase # "crashed"
    /\ phase = "sleeping" =>
          /\ tick_log.listed = Configured
          /\ \A t \in clients : Healthy(t) =>
                /\ \A x \in tick_log.failed \cup tick_log.errors : x[1] # t
                /\ \A x \in tick_log.returned : x[1] = t => x \in Processed

(* C18 witness: in the second cycle a request of the rejected server raised *)
(* during the pass of a PR, and the other server had its PR passed          *)
C18_Witness ==
    /\ phase = "sleeping"
    /\ ticks = 2
    /\ \E s \in clients, t \in clients :
          /\ Rejecting(s) /\ Healthy(t)
          /\ \E x \in tick_log.errors : x[1] = s
          /\ \E x \in Processed : x[1] = t

(* C21: with no client, start_monitoring returns at once: no cycle is ever   *)
(* started, no task ever runs, no request is ever sent, and the loop is      *)
(* never entered                                                             *)
C21_NoClientsReturnsAtOnce ==
    clients = {} =>
        /\ phase \in {"init", "exited"}
        /\ ticks = 0
        /\ calls = <<>>
        /\ tick_log = EmptyLog
        /\ history = {}
        /\ op.name = "start_monitoring" => phase = "exited"

(* C21 witness: start_monitoring has returned from a monitor without client *)
C21_Witness ==
    /\ clients = {}
    /\ config.github_servers # <<>>
    /\ op.name = "start_monitoring"
    /\ phase = "exited"

(* C22: the monitor has a client and a PR-state mapping for exactly the      *)
(* configured servers whose token is set, the mappings are empty after       *)
(* construction, and every server a task or a step works on has a mapping    *)
C22_ClientsForTokenedServers ==
    /\ \A i \in DOMAIN config.github_servers :
          LET server == config.github_servers[i]
          IN /\ server.token => server.name \in clients
                                   /\ server.name \in DOMAIN pr_states
             /\ ~server.token => server.name \notin clients
                                    /\ server.name \notin DOMAIN pr_states
    /\ \A s \in clients \cup DOMAIN pr_states :
          \E i \in DOMAIN config.github_servers :
              config.github_servers[i].name = s
    /\ (phase = "init" /\ op.name = "init") =>
          \A s \in DOMAIN pr_states : pr_states[s] = EmptyMap
    /\ DOMAIN unit \subseteq DOMAIN pr_states
    /\ op.server # None => op.server \in DOMAIN pr_states

(* C22 witness: with a tokenless server configured, a PR of another server *)
(* has been passed and is tracked                                         *)
C22_Witness ==
    /\ \E i \in DOMAIN config.github_servers : ~config.github_servers[i].token
    /\ op.name = "decide"
    /\ op.number \in DOMAIN pr_states[op.server]
    /\ Cardinality(clients) = 2

(* C23: the monitor command constructs a monitor and starts the loop only    *)
(* if some configured server has a token and some repository is configured;  *)
(* otherwise it ends with status 1, and no monitor exists and no cycle runs  *)
C23_CommandValidates ==
    LET token == \E i \in DOMAIN config.github_servers :
                     config.github_servers[i].token
        repos == Len(config.repositories) > 0
        nothing == /\ clients = {}
                   /\ DOMAIN pr_states = {}
                   /\ ticks = 0
                   /\ tick_log = EmptyLog
                   /\ calls = <<>>
    IN /\ phase \notin {"cli", "exit_1"} => token /\ repos
       /\ ~(token /\ repos) => phase \in {"cli", "exit_1"} /\ nothing
       /\ phase = "exit_1" => ~(token /\ repos) /\ nothing
       /\ op.name = "monitor" =>
             phase = (IF token /\ repos THEN "init" ELSE "exit_1")

(* C23 witness: a command with a token but without repositories has ended *)
(* with status 1                                                         *)
C23_Witness ==
    /\ phase = "exit_1"
    /\ \E i \in DOMAIN config.github_servers : config.github_servers[i].token
    /\ config.repositories = <<>>
    /\ clients = {}

(* the decision step of the pass of a PR of server s is being taken *)
Deciding(s) == unit[s].pc = "fetched" /\ op'.name = "decide" /\ op'.server = s

(* C24: in the decision step of a pass, every approve_workflow_run call is   *)
(* for a fetched run whose pull_requests contain the number of the PR being  *)
(* processed, whose id was not in the PRState's approved_runs and whose      *)
(* status is queued or waiting; a fetched run in another status or not       *)
(* associated with the PR is not submitted                                   *)
C24_ApprovalGuard ==
    [][\A s \in clients : Deciding(s) =>
          LET u == unit[s]
              pr == u.pull_requests[u.i]
              approved == pr_states[s][pr.number].approved_runs
              fetched == {u.workflow_runs[j] : j \in DOMAIN u.workflow_runs}
          IN /\ \A i \in DOMAIN calls' :
                   calls'[i].fn = "approve_workflow_run" =>
                      \E run \in fetched :
                          /\ run.id = calls'[i].run_id
                          /\ pr.number \in run.pull_requests
                          /\ run.id \notin approved
                          /\ run.status \in {"queued", "waiting"}
             /\ \A run \in fetched :
                   (run.status \notin {"queued", "waiting"}
                       \/ pr.number \notin run.pull_requests
                       \/ run.id \in approved)
                   => ~Submitted(calls', run.id)]_vars

(* C24 witness: a pass fetched a completed run and a waiting run of the PR *)
(* and submitted the waiting one only                                     *)
C24_Witness ==
    /\ op.name = "decide"
    /\ op.outcome = "completed"
    /\ LET runs == pr_states[op.server][op.number].last_workflow_runs
       IN /\ \E r \in DOMAIN runs : runs[r].status = "completed"
                                      /\ ~Submitted(calls, r)
          /\ \E r \in DOMAIN runs : runs[r].status = "waiting"
                                      /\ Submitted(calls, r)

(* C25 as stated: approval is decided per run id: a run whose approval is    *)
(* recorded for any tracked PR of the repository is not submitted again in   *)
(* the pass of another PR that the run is associated with                    *)
C25_OncePerRunId ==
    [][\A s \in clients : Deciding(s) =>
          LET u == unit[s]
              pr == u.pull_requests[u.i]
          IN \A n \in DOMAIN pr_states[s] :
                pr_states[s][n].pr.repository = pr.repository =>
                   \A r \in pr_states[s][n].approved_runs :
                       ~Submitted(calls', r)]_vars

(* C26 as stated: whatever the approve requests of a pass answer, the pass   *)
(* submits every fetched run that needs approval and then takes the fix      *)
(* decision: with a failing check and the flag unset it requests a fix       *)
C26_FailedApprovalContained ==
    [][\A s \in clients : Deciding(s) =>
          LET u == unit[s]
              pr == u.pull_requests[u.i]
              pr_state == pr_states[s][pr.number]
          IN /\ \A i \in DOMAIN u.workflow_runs :
                   NeedsApproval(u.workflow_runs[i], pr, pr_state.approved_runs)
                      => Submitted(calls', u.workflow_runs[i].id)
             /\ (/\ config.auto_fix_with_copilot
                 /\ \E j \in DOMAIN u.check_runs : IsFailing(u.check_runs[j])
                 /\ ~pr_state.copilot_requested)
                => FixCalls(calls') # <<>>]_vars

(* C27: every request_copilot_fix call of a pass carries a non-empty list    *)
(* that holds exactly the fetched check runs with status completed and       *)
(* conclusion failure; a pass that fetched no such check makes no call; and  *)
(* after a call that succeeded copilot_requested is true                     *)
C27_FixArgumentIsFailingChecks ==
    [][\A s \in clients : Deciding(s) =>
          LET u == unit[s]
              pr == u.pull_requests[u.i]
              failed == {c \in {u.check_runs[j] : j \in DOMAIN u.check_runs} :
                            c.status = "completed" /\ c.conclusion = "failure"}
              fix == FixCalls(calls')
          IN /\ \A i \in DOMAIN fix :
                   /\ fix[i].checks # <<>>
                   /\ {fix[i].checks[k] : k \in DOMAIN fix[i].checks} = failed
                   /\ Len(fix[i].checks) = Cardinality(failed)
                   /\ fix[i].number = pr.number
                   /\ fix[i].result = "true" =>
                         pr_states'[s][pr.number].copilot_requested
             /\ failed = {} => fix = <<>>]_vars

(* C27 witness: a pass fetched a failing and a passing check, requested a *)
(* fix for the failing one alone, and the request succeeded               *)
C27_Witness ==
    /\ op.name = "decide"
    /\ LET pr_state == pr_states[op.server][op.number]
           fix == FixCalls(calls)
       IN /\ Len(fix) = 1
          /\ fix[1].result = "true"
          /\ Len(fix[1].checks) = 1
          /\ Cardinality(DOMAIN pr_state.last_check_runs) = 2
          /\ \E c \in DOMAIN pr_state.last_check_runs :
                pr_state.last_check_runs[c].conclusion = "success"
          /\ pr_state.copilot_requested

(* a fix request of an earlier pass of the PRState returned failure: a       *)
(* failing check is recorded and the flag is unset                           *)
FixRequestFailedBefore(pr_state) ==
    /\ ~pr_state.copilot_requested
    /\ \E c \in DOMAIN pr_state.last_check_runs :
          IsFailing(pr_state.last_check_runs[c])

(* C28 as stated: a fix request that returns failure leaves the flag unset,  *)
(* and after a failed request every pass that fetches a completed/failure    *)
(* check requests the fix again                                              *)
C28_FixRetried ==
    [][\A s \in clients : Deciding(s) =>
          LET u == unit[s]
              pr == u.pull_requests[u.i]
              pr_state == pr_states[s][pr.number]
              fix == FixCalls(calls')
          IN /\ \A i \in DOMAIN fix :
                   fix[i].result = "false" =>
                      ~pr_states'[s][pr.number].copilot_requested
             /\ (/\ config.auto_fix_with_copilot
                 /\ FixRequestFailedBefore(pr_state)
                 /\ \E j \in DOMAIN u.check_runs : IsFailing(u.check_runs[j]))
                => fix # <<>>]_vars

(* C29: process_check_runs, called with a PRState whose stored head differs  *)
(* from the head of the PR argument, leaves copilot_requested false whatever *)
(* the flag was and whatever check runs it is given; called with equal heads *)
(* it never turns a true flag to false                                       *)
C29_DirectCallResetsOnNewHead ==
    [][\A s \in clients : \A n \in DOMAIN pr_states[s] :
          (op'.name = "process_check_runs" /\ op'.server = s /\ op'.number = n) =>
             LET stored == pr_states[s][n].pr.head_sha
             IN /\ stored # op'.head => ~pr_states'[s][n].copilot_requested
                /\ (stored = op'.head /\ pr_states[s][n].copilot_requested)
                      => pr_states'[s][n].copilot_requested]_vars

(* C29 witness: a call with a new head and a failing check found the flag *)
(* set and left it unset                                                  *)
C29_Witness ==
    /\ op.name = "process_check_runs"
    /\ op.outcome = "completed"
    /\ op.head # op.prev_head
    /\ op.requested
    /\ LET pr_state == pr_states[op.server][op.number]
       IN /\ ~pr_state.copilot_requested
          /\ pr_state.pr.head_sha = op.prev_head
          /\ \E c \in DOMAIN pr_state.last_check_runs :
                IsFailing(pr_state.last_check_runs[c])

(* C30 as stated: every id in the approved_runs of a PRState is the id of a  *)
(* run for which an approve_workflow_run call made in a pass of that PR (the *)
(* PR of that number in that repository on that server) returned success     *)
C30_ApprovedRunsWereApproved ==
    \A <<s, n>> \in Tracked :
        \A r \in pr_states[s][n].approved_runs :
            <<s, pr_states[s][n].pr.repository, n, r>> \in history

(* C31 as stated: whatever the switches, after a pass whose fetches          *)
(* succeeded and in which no call raised, last_workflow_runs and             *)
(* last_check_runs hold exactly the fetched runs keyed by id, and the stored *)
(* PR is the listed one                                                      *)
C31_FullReplace ==
    [][\A s \in clients : (Deciding(s) /\ op'.outcome = "completed") =>
          LET u == unit[s]
              pr == u.pull_requests[u.i]
              after == pr_states'[s][pr.number]
          IN /\ after.last_workflow_runs = ById(u.workflow_runs)
             /\ after.last_check_runs = ById(u.check_runs)
             /\ after.pr = pr]_vars

(* the positions of the events of the kinds in the record of a pass *)
Positions(events, kinds) == {i \in DOMAIN events : events[i] \in kinds}

(* every event of the first kinds comes before every event of the second *)
Before(events, first, second) ==
    \A i \in Positions(events, first) : \A j \in Positions(events, second) : i < j

(* C32 as stated: in a pass the fetches come first, then the approve calls,  *)
(* then the fix request, then the writes to the PRState, and the analysis is *)
(* invoked after all of them                                                 *)
C32_PassOrder ==
    op.name = "decide" =>
        LET fetches == {"get_workflow_runs", "get_check_runs"}
            approvals == {"approve_workflow_run"}
            fixes == {"request_copilot_fix"}
            writes == {"pr", "last_updated", "last_workflow_runs", "last_check_runs"}
            analyses == {"analyze_pr"}
        IN /\ Before(op.events, fetches, approvals \cup fixes \cup writes \cup analyses)
           /\ Before(op.events, approvals, fixes \cup writes \cup analyses)
           /\ Before(op.events, fixes, writes \cup analyses)
           /\ Before(op.events, writes, analyses)

(* C33: within one cycle no action is repeated: every PR is passed at most   *)
(* once, a pass submits every run id at most once and requests a fix at most *)
(* once; a run whose approval failed is submitted again in a later cycle     *)
C33_NoRetryInTick ==
    /\ \A i \in DOMAIN tick_log.processed : \A j \in DOMAIN tick_log.processed :
          tick_log.processed[i] = tick_log.processed[j] => i = j
    /\ \A i \in DOMAIN calls : \A j \in DOMAIN calls :
          (/\ calls[i].fn = calls[j].fn
           /\ calls[i].repository = calls[j].repository
           /\ calls[i].number = calls[j].number
           /\ calls[i].run_id = calls[j].run_id) => i = j
    /\ Len(FixCalls(calls)) <= 1
    /\ \A i \in DOMAIN calls :
          /\ op.name = "decide"
          /\ calls[i].repository = op.repository
          /\ calls[i].number = op.number

(* C33 witness: in the second cycle a pass submitted a run that the pass of *)
(* the first cycle had recorded as waiting for approval and had not got     *)
(* approved, and submitted a second run as well                             *)
C33_Witness ==
    /\ ticks = 2
    /\ op.name = "decide"
    /\ Len(calls) = 2
    /\ LET pr_state == pr_states[op.server][op.number]
       IN \E r \in DOMAIN pr_state.last_workflow_runs :
             /\ pr_state.last_workflow_runs[r].status \in {"queued", "waiting"}
             /\ op.number \in pr_state.last_workflow_runs[r].pull_requests
             /\ r \notin pr_state.approved_runs
             /\ Submitted(calls, r)
             /\ op.outcome = "approve_raised"

(* C34: with a client, the loop goes from running to sleeping and back:      *)
(* every cycle ends in a sleep (or in the shutdown), after every cycle,      *)
(* completed or failed, the next one starts (up to the bound on cycles), a   *)
(* cycle starts only when no task of the previous one is left, and the loop  *)
(* ends only by the interrupt signal                                         *)
C34_SchedulerLive ==
    /\ [](phase = "running" => <>(phase \in {"sleeping", "stopped"}))
    /\ \A k \in 0..(MaxTicks - 1) :
          [](ticks = k => <>(ticks = k + 1 \/ phase = "stopped"))
    /\ [][ticks' # ticks =>
             /\ ticks' = ticks + 1
             /\ phase \in {"init", "sleeping"}
             /\ phase' = "running"
             /\ \A s \in clients : unit[s].pc = "done"]_vars
    /\ [][phase' \notin {"init", "running", "sleeping"} =>
             phase' = phase \/ op'.name = "interrupt"]_vars

(* C34 witness: the second cycle started after the first had ended, failed *)
(* before its tasks ran, and the loop sleeps before the next cycle         *)
C34_Witness ==
    /\ phase = "sleeping"
    /\ ticks = 2
    /\ op.name = "cycle_error"
    /\ op.sleep = ErrorSleepCap
    /\ Cardinality(clients) = 2
    /\ \E s \in clients : pr_states[s] # EmptyMap

(* C35: a step of the task of one server changes no PRState of another       *)
(* server, whatever the interleaving of the tasks; and a task passes its PRs *)
(* one after another: it starts the pass of a PR only when it has no pass    *)
(* open, and its next step after the fetches of a PR is the decision for     *)
(* that PR                                                                   *)
C35_NoSharedState ==
    [][\A s \in clients : op'.server = s =>
          /\ \A t \in clients \ {s} : pr_states'[t] = pr_states[t]
          /\ op'.name = "fetch" => unit[s].pc = "prs"
          /\ unit[s].pc = "fetched" =>
                /\ op'.name = "decide"
                /\ op'.number = unit[s].pull_requests[unit[s].i].number
                /\ op'.repository = unit[s].pull_requests[unit[s].i].repository]_vars

(* C35 witness: the tasks of two servers are both between the fetches and *)
(* the decision of a PR, and both PRs have a PRState of their own         *)
C35_Witness ==
    \E s \in clients, t \in clients :
        /\ s # t
        /\ phase = "running"
        /\ unit[s].pc = "fetched" /\ unit[t].pc = "fetched"
        /\ op.name = "fetch" /\ op.server = t
        /\ op.number \in DOMAIN pr_states[s] \cap DOMAIN pr_states[t]

(* C36 as stated: a pass whose fetch of the workflow runs and check runs     *)
(* fails leaves the last_updated and the stored PR of an existing PRState    *)
(* as they were                                                              *)
C36_TouchOnlyOnSuccess ==
    [][\A s \in clients :
          (/\ unit[s].pc = "prs"
           /\ op'.name = "fetch" /\ op'.server = s
           /\ op'.outcome = "fetch_failed") =>
             LET pr == unit[s].pull_requests[unit[s].i]
             IN pr.number \in DOMAIN pr_states[s] =>
                   /\ pr_states'[s][pr.number].last_updated =
                         pr_states[s][pr.number].last_updated
                   /\ pr_states'[s][pr.number].pr = pr_states[s][pr.number].pr]_vars

(* C37: a cleanup sweep sends no request, and it is idempotent: right after  *)
(* a sweep, and for every reachable store, time and age limit, a second      *)
(* sweep at the same time with the same limit removes nothing more           *)
C37_CleanupIdempotent ==
    /\ op.name = "cleanup" =>
          /\ calls = <<>>
          /\ cleanup_stale_prs(pr_states, now, op.max_age) = pr_states
    /\ \A max_age_hours \in MaxAges :
          LET once == cleanup_stale_prs(pr_states, now, max_age_hours)
          IN cleanup_stale_prs(once, now, max_age_hours) = once

(* C37 witness: at one and the same time a sweep removed entries and a later *)
(* sweep with the same age limit removed nothing                            *)
C37_Witness ==
    /\ op.name = "cleanup"
    /\ op.max_age = 0
    /\ op.removed = {}
    /\ now = ClockStep
    /\ Cardinality(deleted) = 2

====
